---- MODULE Spec2Model ----
(***************************************************************************)
(* highlights/__main__.py: one batch run fetches the schedule, inserts the *)
(* games it does not know into the sqlite table "highlights", queries the  *)
(* content of the recent games that still miss a link, writes them back    *)
(* and renders the pages.  The table outlives the process, so the model is *)
(* a sequence of runs over one table while the calendar advances.          *)
(***************************************************************************)
EXTENDS Integers, Sequences, FiniteSets, TLC

VARIABLES
    clock,      \* days elapsed since Epoch: pendulum.today() is add(Epoch, clock)
    con,        \* the table highlights: game_id -> row, in column order
    pc,         \* "idle" (no process), "schedule" (api.schedule in flight),
                \* "sync" (loop of lines 205-218), "fill" (loop of lines 220-228),
                \* "done" (pages written), "crashed" (an exception reached the top)
    err,        \* the exception that ended the run, or "none"; "killed" once a
                \* run has been stopped from outside, until the next run starts
    args,       \* the parsed --date and --start, while the schedule call is in flight
    req,        \* the keyword arguments handed to api.schedule, while it is in flight
    n,          \* games the sync loop has gone through
    game,       \* the game the sync loop is at, with its day (g and gameDay)
    mapped,     \* game_ids the sync loop met with both teams in _TEAMS
    had,        \* game_ids stored when the run started
    missing,    \* what db.select_missing() returned (Highlight objects)
    todo,       \* the part of missing the fill loop has not reached yet
    queried,    \* game_ids api.content was called for in this run
    last,       \* the record written back last: its game_id and the titles that
                \* carried an item in its content response (under SpecStore, the
                \* Highlight handed to update)
    written,    \* page -> days handed to the template and written by this run
    tape,       \* a schedule response kept to be served a second time
    disk,       \* the table as highlights.db holds it: what has been committed
    tried       \* history, kept by SpecRetry: the incomplete games some content
                \* response has come back for with neither link

vars == <<clock, con, pc, err, args, req, n, game, mapped, had, missing, todo,
          queried, last, written, tape, disk, tried>>

(***************************************************************************)
(* Bounds of the model.                                                    *)
(***************************************************************************)
MaxClock == 1        \* the calendar runs from Epoch to Epoch + MaxClock days
MaxGames == 2        \* games listed in one schedule response
MaxItems == 2        \* items under one media entry
MaxPlaybacks == 2    \* playbacks of one item

Epoch == [year |-> 2020, month |-> 1, day |-> 2]     \* the day of the first run
GamePks == {2019020601, 2019020602}
\* the days, counted from Epoch, the schedule lists games under: 2019-12-30, which
\* is 3 days back at Epoch and 4 days back the day after, and 2020-01-04, ahead
GameDays == {-3, 2}
\* the days a response that is kept to be served again lists its games under:
\* one day, as the schedule of a single date has
TapeDays == {2}
EpgLengths == 0..2           \* media entries in one content response
\* <<home team id, away team id>>: 11 is not a key of _TEAMS
Matchups == {<<1, 2>>, <<2, 3>>, <<1, 11>>, <<11, 2>>}
Titles == {"Recap", "Extended Highlights", "Condensed Game"}

\* Python's None and SQL's NULL
None == [none |-> TRUE]

(***************************************************************************)
(* Strings that are compared or built are sequences of character codes.    *)
(***************************************************************************)
RECURSIVE Digits(_, _)
\* the decimal digits of k, zero-padded to width w
Digits(k, w) ==
    IF w = 0 THEN <<>> ELSE Append(Digits(k \div 10, w - 1), 48 + (k % 10))   \* ord('0') = 48

RECURSIVE Width(_)
Width(k) == IF k < 10 THEN 1 ELSE 1 + Width(k \div 10)

\* str(k) for k >= 0
str(k) == Digits(k, Width(k))

RECURSIVE StrLess(_, _)
\* sqlite's BINARY collation on TEXT: bytewise, a proper prefix sorts first
StrLess(a, b) ==
    IF b = <<>> THEN FALSE
    ELSE IF a = <<>> THEN TRUE
    ELSE IF Head(a) # Head(b) THEN Head(a) < Head(b)
    ELSE StrLess(Tail(a), Tail(b))

StrGE(a, b) == ~StrLess(a, b)

(***************************************************************************)
(* pendulum dates                                                          *)
(***************************************************************************)
IsLeap(y) == (y % 4 = 0 /\ y % 100 # 0) \/ y % 400 = 0

DaysInMonth(y, m) ==
    IF m = 2 THEN (IF IsLeap(y) THEN 29 ELSE 28)
    ELSE IF m \in {4, 6, 9, 11} THEN 30 ELSE 31

NextDay(d) ==
    IF d.day < DaysInMonth(d.year, d.month) THEN [d EXCEPT !.day = d.day + 1]
    ELSE IF d.month < 12 THEN [d EXCEPT !.month = d.month + 1, !.day = 1]
    ELSE [year |-> d.year + 1, month |-> 1, day |-> 1]

PrevDay(d) ==
    IF d.day > 1 THEN [d EXCEPT !.day = d.day - 1]
    ELSE IF d.month > 1
         THEN [d EXCEPT !.month = d.month - 1, !.day = DaysInMonth(d.year, d.month - 1)]
    ELSE [year |-> d.year - 1, month |-> 12, day |-> 31]

RECURSIVE add(_, _)
\* date.add(days=k)
add(d, k) ==
    IF k = 0 THEN d
    ELSE IF k > 0 THEN add(NextDay(d), k - 1)
    ELSE add(PrevDay(d), k + 1)

\* date.format("YYYY-MM-DD")
format(d) ==
    Digits(d.year, 4) \o <<45>> \o Digits(d.month, 2) \o <<45>> \o Digits(d.day, 2)   \* ord('-') = 45

\* pendulum.today()
Today == add(Epoch, clock)

GiveUpDays == 3

(***************************************************************************)
(* _TEAMS, keyed by the decimal string of the team id                      *)
(***************************************************************************)
TeamTable ==
    { <<1, "NJD">>, <<2, "NYI">>, <<3, "NYR">>, <<4, "PHI">>, <<5, "PIT">>,
      <<6, "BOS">>, <<7, "BUF">>, <<8, "MTL">>, <<9, "OTT">>, <<10, "TOR">>,
      <<12, "CAR">>, <<13, "FLA">>, <<14, "TBL">>, <<15, "WSH">>, <<16, "CHI">>,
      <<17, "DET">>, <<18, "NSH">>, <<19, "STL">>, <<20, "CGY">>, <<21, "COL">>,
      <<22, "EDM">>, <<23, "VAN">>, <<24, "ANA">>, <<25, "DAL">>, <<26, "LAK">>,
      <<28, "SJS">>, <<29, "CBJ">>, <<30, "MIN">>, <<52, "WPG">>, <<53, "ARI">>,
      <<54, "VGK">> }

_TEAMS ==
    [k \in {str(p[1]) : p \in TeamTable} |->
        (CHOOSE p \in TeamTable : str(p[1]) = k)[2]]

TeamCodes == {p[2] : p \in TeamTable}

(***************************************************************************)
(* Highlight and the table                                                 *)
(***************************************************************************)
Highlight(game_id, date, home, away, recap, extended) ==
    [game_id |-> game_id, date |-> date, home |-> home, away |-> away,
     recap |-> recap, extended |-> extended]

\* Highlight(*row): the columns in table order
FromRow(row) == Highlight(row[1], row[2], row[3], row[4], row[5], row[6])

NoRows == [g \in {} |-> <<>>]

\* the lookup misses every row
get_by_id_never_found(c, game_id) == None

get_by_id(c, game_id) ==
    IF game_id \in DOMAIN c THEN FromRow(c[game_id]) ELSE None

\* the parameters of home and away bound the other way round
update_swapped(c, h) ==
    [g \in DOMAIN c |->
        IF g = h.game_id
        THEN <<g, h.date, h.away, h.home, h.recap, h.extended>>
        ELSE c[g]]

\* INSERT OR REPLACE in place of UPDATE
update_upsert(c, h) ==
    [g \in DOMAIN c \cup {h.game_id} |->
        IF g = h.game_id
        THEN <<g, h.date, h.home, h.away, h.recap, h.extended>>
        ELSE c[g]]

\* UPDATE ... SET date, home, away, recap, extended WHERE game_id = h.game_id
update(c, h) ==
    [g \in DOMAIN c |->
        IF g = h.game_id
        THEN <<g, h.date, h.home, h.away, h.recap, h.extended>>
        ELSE c[g]]

\* INSERT INTO highlights VALUES (...): game_id is the PRIMARY KEY, a second row
\* with the same game_id raises sqlite3.IntegrityError and the table stays as it was
insert(c, h) ==
    IF h.game_id \in DOMAIN c THEN [raised |-> TRUE, con |-> c]
    ELSE [raised |-> FALSE,
          con |-> [g \in DOMAIN c \cup {h.game_id} |->
                    IF g = h.game_id
                    THEN <<h.game_id, h.date, h.home, h.away, h.recap, h.extended>>
                    ELSE c[g]]]

\* the commit is left out: the file stays as it is
commit_lost(c, d) == d

\* self._con.commit(): the file holds what the connection sees
commit(c, d) == c

\* WHERE date >= cutoff, whatever the links
select_missing_any(c, today) ==
    LET cutoff == format(add(today, -GiveUpDays))
    IN  {FromRow(c[g]) : g \in {k \in DOMAIN c : StrGE(c[k][2], cutoff)}}

\* WHERE date > cutoff AND (recap IS NULL OR extended IS NULL)
select_missing_strict(c, today) ==
    LET cutoff == format(add(today, -GiveUpDays))
    IN  {FromRow(c[g]) : g \in {k \in DOMAIN c :
            /\ StrLess(cutoff, c[k][2])
            /\ (c[k][5] = None \/ c[k][6] = None)}}

\* WHERE date >= cutoff AND date <= today AND (recap IS NULL OR extended IS NULL)
select_missing_until_today(c, today) ==
    LET cutoff == format(add(today, -GiveUpDays))
    IN  {FromRow(c[g]) : g \in {k \in DOMAIN c :
            /\ StrGE(c[k][2], cutoff)
            /\ StrGE(format(today), c[k][2])
            /\ (c[k][5] = None \/ c[k][6] = None)}}

\* WHERE recap IS NULL OR extended IS NULL, whatever the date
select_missing_no_cutoff(c, today) ==
    {FromRow(c[g]) : g \in {k \in DOMAIN c : c[k][5] = None \/ c[k][6] = None}}

\* ... AND no content response has come back empty for the game yet
select_missing_once(c, today) ==
    LET cutoff == format(add(today, -GiveUpDays))
    IN  {FromRow(c[g]) : g \in {k \in DOMAIN c :
            /\ StrGE(c[k][2], cutoff)
            /\ (c[k][5] = None \/ c[k][6] = None)
            /\ k \notin tried}}

\* WHERE date >= cutoff AND (recap IS NULL OR extended IS NULL)
select_missing(c, today) ==
    LET cutoff == format(add(today, -GiveUpDays))
    IN  {FromRow(c[g]) : g \in {k \in DOMAIN c :
            /\ StrGE(c[k][2], cutoff)
            /\ (c[k][5] = None \/ c[k][6] = None)}}

select_all(c) == {FromRow(c[g]) : g \in DOMAIN c}

\* WHERE home = team
select_team_home_only(c, team) ==
    {FromRow(c[g]) : g \in {k \in DOMAIN c : c[k][3] = team}}

\* WHERE home = team OR away = team
select_team(c, team) ==
    {FromRow(c[g]) : g \in {k \in DOMAIN c : c[k][3] = team \/ c[k][4] = team}}

highlights_to_days(hs) ==
    {[date |-> d, games |-> {h \in hs : h.date = d}] : d \in {h.date : h \in hs}}

(***************************************************************************)
(* The content collaborator's answer.  A playback URL is named by where it *)
(* sits: the title of its media entry, the index of its item (from 0) and  *)
(* how many playbacks follow it in the item's list.  Every item carries    *)
(* MaxPlaybacks playbacks.                                                 *)
(***************************************************************************)
Url(title, item, after) == [title |-> title, item |-> item, after |-> after]

Media(title, items) ==
    [title |-> title,
     items |-> [i \in 1..items |->
                  [playbacks |-> [p \in 1..MaxPlaybacks |->
                                    [url |-> Url(title, i - 1, MaxPlaybacks - p)]]]]]

MediaEntries == {Media(t, i) : t \in Titles, i \in 0..MaxItems}

\* g.media.epg
Epgs == UNION {[1..k -> MediaEntries] : k \in EpgLengths}

\* media["items"][0].playbacks[0].url
FirstItemFirstPlayback(media) == media.items[1].playbacks[1].url

\* media["items"][-1].playbacks[-1].url
LastItemLastPlayback(media) ==
    LET playbacks == media.items[Len(media.items)].playbacks
    IN  playbacks[Len(playbacks)].url

\* media["items"][0].playbacks[-1].url
FirstItemLastPlayback(media) ==
    LET playbacks == media.items[1].playbacks
    IN  playbacks[Len(playbacks)].url

\* h.recap = url if the entry carries items else None, and so for extended
Pick_clears(h, media) ==
    LET r == IF media.title = "Recap"
             THEN [h EXCEPT !.recap = IF Len(media.items) > 0
                                      THEN FirstItemLastPlayback(media) ELSE None]
             ELSE h
    IN  IF media.title = "Extended Highlights"
        THEN [r EXCEPT !.extended = IF Len(media.items) > 0
                                     THEN FirstItemLastPlayback(media) ELSE None]
        ELSE r

\* the second branch assigns both fields
Pick_both(h, media) ==
    LET r == IF media.title = "Recap" /\ Len(media.items) > 0
             THEN [h EXCEPT !.recap = FirstItemLastPlayback(media)]
             ELSE h
    IN  IF media.title = "Extended Highlights" /\ Len(media.items) > 0
        THEN [r EXCEPT !.recap = FirstItemLastPlayback(media),
                       !.extended = FirstItemLastPlayback(media)]
        ELSE r

\* lines 224-227 for one media entry
Pick(h, media) ==
    LET r == IF media.title = "Recap" /\ Len(media.items) > 0
             THEN [h EXCEPT !.recap = FirstItemLastPlayback(media)]
             ELSE h
    IN  IF media.title = "Extended Highlights" /\ Len(media.items) > 0
        THEN [r EXCEPT !.extended = FirstItemLastPlayback(media)]
        ELSE r

RECURSIVE Scan(_, _)
\* for media in g.media.epg: ...
Scan(h, epg) ==
    IF epg = <<>> THEN h ELSE Scan(Pick(h, Head(epg)), Tail(epg))

\* the titles lines 224 and 226 look for that carry at least one item in the response
Carried(epg) ==
    {epg[i].title : i \in {k \in 1..Len(epg) : Len(epg[k].items) > 0}}
        \cap {"Recap", "Extended Highlights"}

(***************************************************************************)
(* One run                                                                 *)
(***************************************************************************)
NoPages == [p \in {} |-> {}]
ArgDates == {None, add(Epoch, 2)}
ArgStarts == {None, add(Epoch, -3)}
Off == [mode |-> "off", entries |-> <<>>, after |-> NoRows]

\* lines 200-203: the keyword arguments of api.schedule
ScheduleRequest(a, today) ==
    IF a.start # None THEN [start_date |-> a.start, end_date |-> today]
    ELSE [date |-> a.date]

\* date, home and away of every stored game
Immutable(c) == [g \in DOMAIN c |-> <<c[g][2], c[g][3], c[g][4]>>]

\* what a process holds when it starts
Fresh ==
    /\ err' = "none"
    /\ args' = None
    /\ req' = None
    /\ n' = 0
    /\ game' = None
    /\ mapped' = {}
    /\ had' = {}
    /\ missing' = {}
    /\ todo' = {}
    /\ queried' = {}
    /\ last' = None
    /\ written' = NoPages

\* before the first run: an empty table, no process
Boot ==
    /\ clock = 0
    /\ con = NoRows
    /\ pc = "idle"
    /\ err = "none"
    /\ args = None
    /\ req = None
    /\ n = 0
    /\ game = None
    /\ mapped = {}
    /\ had = {}
    /\ missing = {}
    /\ todo = {}
    /\ queried = {}
    /\ last = None
    /\ written = NoPages
    /\ disk = NoRows
    /\ tried = {}

Init == Boot /\ tape = Off

\* lines 186-203 up to the call of api.schedule
Launch ==
    /\ pc = "idle"
    /\ \E d \in ArgDates, st \in ArgStarts :
          /\ args' = [date |-> d, start |-> st]
          /\ req' = ScheduleRequest(args', Today)
    /\ pc' = "schedule"
    /\ err' = "none"
    /\ had' = DOMAIN con
    /\ UNCHANGED <<clock, con, n, game, mapped, missing, todo, queried,
                   last, written, disk, tried>>

\* a run that is not part of a repetition
StartRun ==
    /\ tape.mode = "off"
    /\ Launch
    /\ UNCHANGED tape

\* the exception is caught and the run goes on
ScheduleFail_swallowed ==
    /\ pc = "schedule"
    /\ pc' = "sync"
    /\ err' = "schedule"
    /\ UNCHANGED <<clock, con, args, req, n, game, mapped, had, missing, todo,
                   queried, last, written, tape, disk, tried>>

\* api.schedule raises: the exception reaches the top level
ScheduleFail ==
    /\ pc = "schedule"
    /\ pc' = "crashed"
    /\ err' = "schedule"
    /\ UNCHANGED <<clock, con, args, req, n, game, mapped, had, missing, todo,
                   queried, last, written, tape, disk, tried>>

\* api.schedule returns s
ScheduleReturn ==
    /\ pc = "schedule"
    /\ pc' = "sync"
    /\ args' = None
    /\ req' = None
    /\ UNCHANGED <<clock, con, err, n, game, mapped, had, missing, todo,
                   queried, last, written, tape, disk, tried>>

\* the games the response may hold at the loop's position
NextEntries ==
    IF tape.mode = "replay"
    THEN (IF n < Len(tape.entries) THEN {tape.entries[n + 1]} ELSE {})
    ELSE IF n < MaxGames
         THEN {[date |-> format(add(Epoch, d)), gamePk |-> g, home |-> m[1], away |-> m[2]] :
                 d \in IF tape.mode = "record" THEN TapeDays ELSE GameDays,
                 g \in GamePks, m \in Matchups}
         ELSE {}

\* _TEAMS.get(...) in place of the lookup that raises KeyError
SyncEntry_get(c, e) ==
    LET code(id) == IF str(id) \in DOMAIN _TEAMS THEN _TEAMS[str(id)] ELSE None
        h == Highlight(e.gamePk, e.date, code(e.home), code(e.away), None, None)
    IN  IF get_by_id(c, h.game_id) = None
        THEN LET r == insert(c, h)
             IN  [raised |-> r.raised, con |-> r.con, kept |-> TRUE]
        ELSE [raised |-> FALSE, con |-> c, kept |-> TRUE]

\* db.insert(h) without the lookup of line 216
SyncEntry_unchecked(c, e) ==
    IF str(e.home) \notin DOMAIN _TEAMS \/ str(e.away) \notin DOMAIN _TEAMS
    THEN [raised |-> FALSE, con |-> c, kept |-> FALSE]
    ELSE LET h == Highlight(e.gamePk, e.date, _TEAMS[str(e.home)], _TEAMS[str(e.away)],
                            None, None)
             r == insert(c, h)
         IN  [raised |-> r.raised, con |-> r.con, kept |-> TRUE]

\* Highlight(game_id, date, away, home)
SyncEntry_swapped(c, e) ==
    IF str(e.home) \notin DOMAIN _TEAMS \/ str(e.away) \notin DOMAIN _TEAMS
    THEN [raised |-> FALSE, con |-> c, kept |-> FALSE]
    ELSE LET h == Highlight(e.gamePk, e.date, _TEAMS[str(e.away)], _TEAMS[str(e.home)],
                            None, None)
         IN  IF get_by_id(c, h.game_id) = None
             THEN LET r == insert(c, h)
                  IN  [raised |-> r.raised, con |-> r.con, kept |-> TRUE]
             ELSE [raised |-> FALSE, con |-> c, kept |-> TRUE]

\* lines 207-218 for one game of the response
SyncEntry(c, e) ==
    IF str(e.home) \notin DOMAIN _TEAMS \/ str(e.away) \notin DOMAIN _TEAMS
    THEN [raised |-> FALSE, con |-> c, kept |-> FALSE]
    ELSE LET h == Highlight(e.gamePk, e.date, _TEAMS[str(e.home)], _TEAMS[str(e.away)],
                            None, None)
         IN  IF get_by_id(c, h.game_id) = None
             THEN LET r == insert(c, h)
                  IN  [raised |-> r.raised, con |-> r.con, kept |-> TRUE]
             ELSE [raised |-> FALSE, con |-> c, kept |-> TRUE]

\* one pass of the loops of lines 205-206
SyncStep ==
    /\ pc = "sync"
    /\ \E e \in NextEntries :
          LET r == SyncEntry(con, e)
          IN  /\ game' = e
              /\ con' = r.con
              /\ disk' = IF r.con = con THEN disk ELSE commit(r.con, disk)   \* line 144
              /\ pc' = IF r.raised THEN "crashed" ELSE "sync"
              /\ err' = IF r.raised THEN "IntegrityError" ELSE err
              /\ mapped' = IF r.kept THEN mapped \cup {e.gamePk} ELSE mapped
              /\ tape' = IF tape.mode = "record"
                         THEN [tape EXCEPT !.entries = Append(@, e)]
                         ELSE tape
    /\ n' = n + 1
    /\ UNCHANGED <<clock, args, req, had, missing, todo, queried, last, written,
                   tried>>

\* db.select_missing() evaluated ahead of the sync loop: it sees the games
\* stored when the run started
SyncEnd_stale ==
    /\ pc = "sync"
    /\ tape.mode = "replay" => n = Len(tape.entries)
    /\ missing' = select_missing([g \in had |-> con[g]], Today)
    /\ todo' = missing'
    /\ pc' = "fill"
    /\ n' = 0
    /\ game' = None
    /\ mapped' = {}
    /\ tape' = IF tape.mode = "record"
               THEN [tape EXCEPT !.mode = "recorded", !.after = Immutable(con)]
               ELSE tape
    /\ UNCHANGED <<clock, con, err, args, req, had, queried, last, written,
                   disk, tried>>

\* the response is exhausted; line 220 evaluates db.select_missing()
SyncEnd ==
    /\ pc = "sync"
    /\ tape.mode = "replay" => n = Len(tape.entries)
    /\ missing' = select_missing(con, Today)
    /\ todo' = missing'
    /\ pc' = "fill"
    /\ n' = 0
    /\ game' = None
    /\ mapped' = {}
    /\ tape' = IF tape.mode = "record"
               THEN [tape EXCEPT !.mode = "recorded", !.after = Immutable(con)]
               ELSE tape
    /\ UNCHANGED <<clock, con, err, args, req, had, queried, last, written,
                   disk, tried>>

\* line 222 raises: nothing catches it
ContentFail ==
    /\ pc = "fill"
    /\ \E h \in todo : queried' = queried \cup {h.game_id}
    /\ pc' = "crashed"
    /\ err' = "content"
    /\ UNCHANGED <<clock, con, args, req, n, game, mapped, had, missing, todo,
                   last, written, tape, disk, tried>>

\* lines 221-228 for one selected record whose content arrives
FillRecord ==
    /\ pc = "fill"
    /\ \E h \in todo, epg \in Epgs :
          /\ queried' = queried \cup {h.game_id}
          /\ con' = update(con, Scan(h, epg))
          /\ disk' = commit(con', disk)                                   \* line 138
          /\ todo' = todo \ {h}
          /\ last' = [game_id |-> h.game_id, carried |-> Carried(epg)]
    /\ UNCHANGED <<clock, pc, err, args, req, n, game, mapped, had, missing,
                   written, tape>>

FillStep == FillRecord /\ UNCHANGED tried

\* lines 230-244: index.html and one page per team
Pages(c) ==
    [p \in {"index"} \cup TeamCodes |->
        IF p = "index" THEN highlights_to_days(select_all(c))
        ELSE highlights_to_days(select_team(c, p))]

Render ==
    /\ pc = "fill"
    /\ todo = {}
    /\ written' = Pages(con)
    /\ pc' = "done"
    /\ UNCHANGED <<clock, con, err, args, req, n, game, mapped, had, missing,
                   todo, queried, last, tape, disk, tried>>

\* the process ends, by the end of the script or by the traceback: the
\* connection goes, the next one sees what the file holds
Exit ==
    /\ pc \in {"done", "crashed"}
    /\ pc' = "idle"
    /\ Fresh
    /\ con' = disk
    /\ UNCHANGED <<clock, tape, disk, tried>>

\* the process is stopped from outside, between two operations of the table
Interrupt ==
    /\ pc \in {"schedule", "sync", "fill"}
    /\ pc' = "idle"
    /\ err' = "killed"
    /\ args' = None
    /\ req' = None
    /\ n' = 0
    /\ game' = None
    /\ mapped' = {}
    /\ had' = {}
    /\ missing' = {}
    /\ todo' = {}
    /\ queried' = {}
    /\ last' = None
    /\ written' = NoPages
    /\ con' = disk
    /\ UNCHANGED <<clock, tape, disk, tried>>

\* the calendar advances between two runs
Tick ==
    /\ pc = "idle"
    /\ clock < MaxClock
    /\ clock' = clock + 1
    /\ UNCHANGED <<con, pc, err, args, req, n, game, mapped, had, missing, todo,
                   queried, last, written, tape, disk, tried>>

Next ==
    \/ StartRun
    \/ ScheduleFail
    \/ ScheduleReturn
    \/ SyncStep
    \/ SyncEnd
    \/ ContentFail
    \/ FillStep
    \/ Render
    \/ Exit
    \/ Interrupt
    \/ Tick

Spec == Init /\ [][Next]_vars

(***************************************************************************)
(* The same schedule response served to two runs: the first run from the   *)
(* empty table keeps the games it went through, the run after it, on the   *)
(* same day, gets exactly these games again.                               *)
(***************************************************************************)
InitTwice == Boot /\ tape = [mode |-> "record", entries |-> <<>>, after |-> NoRows]

\* the run whose response is kept
StartFirst ==
    /\ tape.mode = "record"
    /\ Launch
    /\ tape' = [tape EXCEPT !.entries = <<>>]

\* the run that is served the kept response
StartSecond ==
    /\ tape.mode = "recorded"
    /\ Launch
    /\ tape' = [tape EXCEPT !.mode = "replay"]

NextTwice ==
    \/ StartFirst
    \/ StartSecond
    \/ ScheduleFail
    \/ ScheduleReturn
    \/ SyncStep
    \/ SyncEnd
    \/ ContentFail
    \/ FillStep
    \/ Render
    \/ Exit

SpecTwice == InitTwice /\ [][NextTwice]_vars

(***************************************************************************)
(* Runs over several days with the history of the content responses that   *)
(* brought nothing: no run is stopped from outside, the schedule call      *)
(* returns and every content query is answered.                            *)
(***************************************************************************)
\* FillRecord, noting the game when the response carried neither link
FillNoted ==
    /\ FillRecord
    /\ tried' = {g \in IF last'.carried = {} THEN tried \cup {last'.game_id} ELSE tried :
                    con'[g][5] = None \/ con'[g][6] = None}

NextRetry ==
    \/ StartRun
    \/ ScheduleReturn
    \/ SyncStep
    \/ SyncEnd
    \/ FillNoted
    \/ Render
    \/ Exit
    \/ Tick

SpecRetry == Init /\ [][NextRetry]_vars

(***************************************************************************)
(* Database.update on its own: any Highlight handed to it over any table   *)
(* of at most two games.                                                   *)
(***************************************************************************)
StoreDates == {format(Epoch), format(add(Epoch, 2))}
StoreCodes == {"NJD", "NYI"}
StoreLinks == {None, Url("Recap", 0, 0)}
StoreIds == GamePks \cup {2019020603}

StoreRows(g) ==
    {<<g, d, home, away, recap, None>> :
        d \in StoreDates, home \in StoreCodes, away \in StoreCodes, recap \in StoreLinks}

StoreTables ==
    UNION {{c \in [ids -> UNION {StoreRows(g) : g \in ids}] : \A g \in ids : c[g][1] = g} :
             ids \in SUBSET GamePks}

StoreRecords ==
    {Highlight(g, d, home, away, None, extended) :
        g \in StoreIds, d \in StoreDates, home \in StoreCodes, away \in StoreCodes,
        extended \in StoreLinks}

InitStore ==
    /\ con \in StoreTables
    /\ disk = con
    /\ clock = 0
    /\ pc = "idle"
    /\ err = "none"
    /\ args = None
    /\ req = None
    /\ n = 0
    /\ game = None
    /\ mapped = {}
    /\ had = {}
    /\ missing = {}
    /\ todo = {}
    /\ queried = {}
    /\ last = None
    /\ written = NoPages
    /\ tape = Off
    /\ tried = {}

\* db.update(h)
StoreUpdate ==
    /\ \E h \in StoreRecords :
          /\ con' = update(con, h)
          /\ last' = h
    /\ disk' = commit(con', disk)
    /\ UNCHANGED <<clock, pc, err, args, req, n, game, mapped, had, missing, todo,
                   queried, written, tape, tried>>

NextStore == StoreUpdate

SpecStore == InitStore /\ [][NextStore]_vars

(***************************************************************************)
(* The claims                                                              *)
(***************************************************************************)
Complete(row) == row[5] # None /\ row[6] # None
Ids(hs) == {h.game_id : h \in hs}
KnownTeamIds == {p[1] : p \in TeamTable}
CodeOf(id) == (CHOOSE p \in TeamTable : p[1] = id)[2]
InWindow(row) == \E k \in -MaxClock..GiveUpDays : row[2] = format(add(Today, -k))
\* the day of a row's date, counted from Epoch, and how many days today is after it
Calendar == [d \in -6..6 |-> format(add(Epoch, d))]
DayOf(row) == CHOOSE d \in DOMAIN Calendar : Calendar[d] = row[2]
Age(row) == clock - DayOf(row)

\* C1: a content query that fails does not end the run: the record is skipped,
\* the other selected records are still queried and the pages are rendered, so
\* no run is ever ended by the content collaborator's error.
C1_ContentFailureSkipsRecord == pc = "crashed" => err # "content"

\* C2: while a run is served the schedule response of the run before, the table
\* holds exactly the games it held after that run's sync, each with the same
\* date, home and away, and no insert of a stored game_id is attempted.
C2_SecondSyncChangesNothing ==
    tape.mode = "replay" => (Immutable(con) = tape.after /\ err # "IntegrityError")

C2_Witness ==
    /\ tape.mode = "replay"
    /\ pc = "fill"
    /\ Len(tape.entries) >= 2
    /\ Cardinality(DOMAIN con) = 2

\* C3: no step removes a stored game or changes its game_id, date, home or away.
C3_InsertTimeFieldsStay ==
    [][\A g \in DOMAIN con :
          /\ g \in DOMAIN con'
          /\ con'[g][1] = g
          /\ con'[g][2] = con[g][2]
          /\ con'[g][3] = con[g][3]
          /\ con'[g][4] = con[g][4]]_vars

\* a game stored by an earlier run and since written back with both links is
\* reported again, under another day and with other teams
C3_Witness ==
    /\ pc = "sync"
    /\ game # None
    /\ game.gamePk \in had
    /\ game.home \in KnownTeamIds /\ game.away \in KnownTeamIds
    /\ con[game.gamePk][2] # game.date
    /\ con[game.gamePk][3] # CodeOf(game.home)
    /\ Complete(con[game.gamePk])

\* C4: a game whose recap and extended are both set stays so, is not in what a
\* later select_missing returns, is never waiting in the fill loop, and no
\* content query is made for it.
C4_CompleteNeverSelected ==
    /\ [](\A h \in todo : ~Complete(con[h.game_id]))
    /\ [][\A g \in DOMAIN con :
            Complete(con[g]) =>
              /\ Complete(con'[g])
              /\ g \in Ids(missing') => g \in Ids(missing)
              /\ g \in queried' => g \in queried]_vars

\* a complete game from an earlier run, dated inside the window, is left out
\* while another game is selected
C4_Witness ==
    /\ pc = "fill"
    /\ missing # {}
    /\ \E g \in had :
          /\ Complete(con[g])
          /\ InWindow(con[g])
          /\ g \notin Ids(missing)

\* C5: right after select_missing, an incomplete game dated 3 days before today
\* is in the result and an incomplete game dated 4 or more days before is not.
C5_InclusiveCutoff ==
    (pc = "fill" /\ queried = {}) =>
        \A g \in DOMAIN con :
            ~Complete(con[g]) =>
              /\ con[g][2] = format(add(Today, -3)) => FromRow(con[g]) \in missing
              /\ \A k \in 4..(4 + MaxClock) :
                    con[g][2] = format(add(Today, -k)) => g \notin Ids(missing)

\* an incomplete game dated 4 days back is left out while another is selected
C5_Witness ==
    /\ pc = "fill"
    /\ queried = {}
    /\ missing # {}
    /\ \E g \in DOMAIN con :
          /\ ~Complete(con[g])
          /\ con[g][2] = format(add(Today, -4))
          /\ g \notin Ids(missing)

\* C6: the pass of the sync loop over a game with a team id outside the team
\* table changes no row and raises nothing, the loop goes on, the pass over a
\* game with both ids in the table leaves that game stored, and the games
\* stored since the run started are exactly those met with both ids known.
C6_UnmappedGameSkipped ==
    /\ [][(pc = "sync" /\ n' = n + 1) =>
            IF game'.home \in KnownTeamIds /\ game'.away \in KnownTeamIds
            THEN game'.gamePk \in DOMAIN con'
            ELSE con' = con /\ err' = "none" /\ pc' = "sync"]_vars
    /\ [](pc = "sync" => DOMAIN con = had \cup mapped)

\* from the empty table: one game with known teams, then one without
C6_Witness ==
    /\ pc = "sync"
    /\ n = 2
    /\ had = {}
    /\ game.away \notin KnownTeamIds
    /\ Cardinality(mapped) = 1
    /\ Cardinality(DOMAIN con) = 1
    /\ game.gamePk \notin DOMAIN con

\* C7: the record written back after a response that carries items under the
\* recap title holds, as recap, the URL of the first item (index 0) that no
\* playback follows; the same for extended and the extended-highlights title.
C7_FirstItemLastPlayback ==
    last # None =>
        LET r == get_by_id(con, last.game_id)
        IN  /\ "Recap" \in last.carried => r.recap = Url("Recap", 0, 0)
            /\ "Extended Highlights" \in last.carried =>
                  r.extended = Url("Extended Highlights", 0, 0)

C7_Witness ==
    /\ last # None
    /\ last.carried = {"Recap"}
    /\ get_by_id(con, last.game_id).recap = Url("Recap", 0, 0)

\* C8: the record written back keeps the recap it was selected with when no
\* entry of the response carries items under the recap title, and likewise
\* its extended; a response carrying only extended highlights sets extended
\* and leaves an absent recap absent.
C8_FieldsIndependent ==
    last # None =>
        LET r == get_by_id(con, last.game_id)
            h == CHOOSE x \in missing : x.game_id = last.game_id
        IN  /\ "Recap" \notin last.carried => r.recap = h.recap
            /\ "Extended Highlights" \notin last.carried => r.extended = h.extended
            /\ (last.carried = {"Extended Highlights"} /\ h.recap = None) =>
                  (r.recap = None /\ r.extended # None)

C8_Witness ==
    /\ last # None
    /\ last.carried = {"Extended Highlights"}
    /\ get_by_id(con, last.game_id).recap = None
    /\ get_by_id(con, last.game_id).extended # None

\* C9: a run whose schedule call fails ends there: the call changes no row,
\* and the run has inserted nothing, gone through no game, selected and
\* queried nothing, written back nothing and rendered no page.
C9_ScheduleFailureIsFatal ==
    /\ [][pc = "schedule" => con' = con]_vars
    /\ [](err = "schedule" =>
            /\ pc = "crashed"
            /\ DOMAIN con = had
            /\ n = 0 /\ game = None
            /\ missing = {} /\ queried = {} /\ last = None
            /\ written = NoPages)

\* the call fails while a stored game inside the window still misses its links
C9_Witness ==
    /\ err = "schedule"
    /\ pc = "crashed"
    /\ \E g \in DOMAIN con : ~Complete(con[g]) /\ InWindow(con[g])

\* C10: select_team(code) holds a stored game exactly when its home or its away
\* is code, and the page written for a team lists exactly these games.
C10_TeamFilter ==
    \A code \in TeamCodes :
        /\ select_team(con, code) \subseteq select_all(con)
        /\ \A h \in select_all(con) :
              h \in select_team(con, code) <=> (h.home = code \/ h.away = code)
        /\ pc = "done" =>
              UNION {d.games : d \in written[code]} =
                {h \in select_all(con) : h.home = code \/ h.away = code}

\* a team page that lists one of two stored games
C10_Witness ==
    /\ pc = "done"
    /\ \E code \in TeamCodes :
          /\ Cardinality(UNION {d.games : d \in written[code]}) = 1
          /\ Cardinality(DOMAIN con) = 2

\* C11: update with a game_id that is not stored raises nothing, stores no
\* new game and leaves every row as it was; with a stored game_id it rewrites
\* that one row with the record's values and leaves every other row as it was.
C11_UpdateByKey ==
    [][LET h == last'
       IN  /\ err' = "none"
           /\ DOMAIN con' = DOMAIN con
           /\ \A g \in DOMAIN con :
                 con'[g] = IF g = h.game_id
                           THEN <<g, h.date, h.home, h.away, h.recap, h.extended>>
                           ELSE con[g]
           /\ h.game_id \notin DOMAIN con => (con' = con /\ disk' = disk)]_vars

\* update has been handed a game that is not among the two stored ones
C11_Witness ==
    /\ last # None
    /\ last.game_id \notin DOMAIN con
    /\ Cardinality(DOMAIN con) = 2
    /\ disk = con

\* C12: each pass of the sync loop adds the game it is at exactly when both its
\* team ids are in the team table and it is not stored yet, so that when the
\* loop ends the stored game_ids are those stored at the start of the run plus
\* those met with both teams known; the new row holds the game_id, the date of
\* the day the game is listed under, the codes of its home and away teams and
\* no link, and no other row changes.
C12_SyncStoresMappedGames ==
    /\ [][(pc = "sync" /\ n' = n + 1) =>
            LET e == game'
                known == e.home \in KnownTeamIds /\ e.away \in KnownTeamIds
            IN  /\ DOMAIN con' = DOMAIN con \cup (IF known THEN {e.gamePk} ELSE {})
                /\ \A g \in DOMAIN con : con'[g] = con[g]
                /\ (known /\ e.gamePk \notin DOMAIN con) =>
                      con'[e.gamePk] =
                        <<e.gamePk, e.date, CodeOf(e.home), CodeOf(e.away), None, None>>]_vars
    /\ [][(pc = "sync" /\ pc' = "fill") =>
            (con' = con /\ DOMAIN con' = had \cup mapped)]_vars

\* a run over a table that holds a game already has just stored a second one
C12_Witness ==
    /\ pc = "sync"
    /\ game # None
    /\ had # {}
    /\ game.gamePk \in mapped \ had
    /\ con[game.gamePk] =
          <<game.gamePk, game.date, CodeOf(game.home), CodeOf(game.away), None, None>>
    /\ DOMAIN con = had \cup {game.gamePk}

\* C13: with one process at a time on the table, no run is ended by the
\* IntegrityError of an insert, and no pass of the sync loop meets one, also
\* when the response lists a game_id a second time, under another day.
C13_NoDuplicateKey ==
    /\ err # "IntegrityError"
    /\ pc = "sync" => \A e \in NextEntries : ~SyncEntry(con, e).raised

\* the loop has gone through the same game twice, listed under two days, from
\* the empty table
C13_Witness ==
    /\ pc = "sync"
    /\ n = 2
    /\ had = {}
    /\ game.gamePk \in DOMAIN con
    /\ con[game.gamePk][2] # game.date
    /\ game.home \in KnownTeamIds /\ game.away \in KnownTeamIds
    /\ mapped = {game.gamePk}

\* C14: the write-back after a content response that carries neither link
\* leaves the table as it was, and a game such a response has come back for is
\* in what select_missing returns in every later run that starts at most 3
\* days after the game's date, as long as it still misses a link.
C14_EmptyResponseRetried ==
    /\ [][(pc = "fill" /\ todo' # todo /\ last'.carried = {}) => con' = con]_vars
    /\ []((pc = "fill" /\ queried = {}) =>
            \A g \in tried :
                (~Complete(con[g]) /\ Age(con[g]) <= 3) => FromRow(con[g]) \in missing)

\* a game whose content came back empty on the first day is selected again by
\* a run of the day after, still without any link
C14_Witness ==
    /\ pc = "fill"
    /\ queried = {}
    /\ clock = 1
    /\ \E g \in tried :
          /\ con[g][5] = None /\ con[g][6] = None
          /\ FromRow(con[g]) \in missing

\* C15: the calendar never goes back, and a game that misses a link and is
\* dated more than 3 days before today is not queried by the run under way,
\* is not waiting in its fill loop, and no step removes it, changes any of its
\* columns or queries it.
C15_ExpiredLeftAlone ==
    /\ [][clock' >= clock]_vars
    /\ [](\A g \in DOMAIN con :
            (~Complete(con[g]) /\ Age(con[g]) > 3) =>
                (g \notin queried /\ g \notin Ids(todo)))
    /\ [][\A g \in DOMAIN con :
            (~Complete(con[g]) /\ Age(con[g]) > 3) =>
                /\ g \in DOMAIN con'
                /\ con'[g] = con[g]
                /\ g \notin queried']_vars

\* a game that got its recap but not its extended link while inside the window
\* is left out by a finished run of the day it is 4 days old, which queried
\* another game
C15_Witness ==
    /\ pc = "done"
    /\ queried # {}
    /\ \E g \in had :
          /\ Age(con[g]) = 4
          /\ con[g][5] # None /\ con[g][6] = None
          /\ g \notin queried

C17_CommittedBeforeReturn ==
    /\ [](disk = con)
    /\ [][pc' = "idle" => con' = con]_vars
    /\ [][pc = "idle" /\ pc' # "idle" => (con' = con /\ had' = DOMAIN con)]_vars

\* a run stopped from outside has left a game with a link written by its fill
\* loop and a game its fill loop had not written back
C17_Witness ==
    /\ pc = "idle"
    /\ err = "killed"
    /\ disk = con
    /\ \E g \in DOMAIN con : con[g][5] # None
    /\ \E g \in DOMAIN con : con[g][5] = None /\ con[g][6] = None /\ Age(con[g]) <= 3

\* C18: while the schedule call is in flight, the run was not given both a
\* target date and a range start; given only a range start it asks for the
\* days from the start to today, given only a target date it asks for that
\* date, and given neither it names no date, which the schedule collaborator
\* takes as today.
C18_ExactlyOneOfDateAndStart ==
    pc = "schedule" =>
        /\ ~(args.date # None /\ args.start # None)
        /\ (args.date = None /\ args.start # None) =>
              req = [start_date |-> args.start, end_date |-> Today]
        /\ (args.date # None /\ args.start = None) => req = [date |-> args.date]
        /\ (args.date = None /\ args.start = None) => req = [date |-> None]

\* C19: no step takes a stored game out of the table, and no step turns a
\* recap that is set into an absent one, nor an extended that is set.
C19_LinksNeverCleared ==
    [][\A g \in DOMAIN con :
          /\ g \in DOMAIN con'
          /\ con[g][5] # None => con'[g][5] # None
          /\ con[g][6] # None => con'[g][6] # None]_vars

\* a game that got its recap in an earlier run has been written back after a
\* response with no item under the recap title, and still has it
C19_Witness ==
    /\ last # None
    /\ last.game_id \in had
    /\ "Recap" \notin last.carried
    /\ con[last.game_id][5] # None
    /\ con[last.game_id][6] = None

====
